---- MODULE Spec2Model ----
(***************************************************************************)
(* Model of the product catalogue backend:                                 *)
(*   ProductService.findAll / softDelete / invalidateCache /               *)
(*   fetchFromContentful   (product.service.ts)                            *)
(*   AuthGuard.canActivate (auth guard)                                    *)
(* Every async method is split at its awaits: one action per segment that  *)
(* runs between two awaits, so that requests interleave exactly where the  *)
(* event loop lets them.                                                   *)
(***************************************************************************)
EXTENDS Integers, Naturals, Sequences, FiniteSets, TLC

\* ------------------------------------------------------------------------
\* Bounds
\* ------------------------------------------------------------------------
MaxItems == 2          \* longest external item list returned by one fetch
MaxProducts == 2       \* rows the product table may grow to
MaxTail == 2           \* characters following a prefix of the scheme token
MaxCalls == 4          \* requests and sync runs started in one behaviour
MaxRuns == 3           \* sync runs and soft-deletes started when only they run
TicksPerTtl == 2       \* steps of the clock that make up one time-to-live

\* ------------------------------------------------------------------------
\* Program constants
\* ------------------------------------------------------------------------
DefaultPage == 1
DefaultLimit == 5
CacheTtlMs == 3600000

\* ------------------------------------------------------------------------
\* Values
\* ------------------------------------------------------------------------
Undefined == -1                         \* an absent numeric field
NoId == 0                               \* "no row"
NoTime == 0                             \* deletedAt IS NULL

FindCalls == {"f1", "f2"}               \* concurrent findAll requests
DelCalls == {"d1"}                      \* concurrent softDelete requests
SyncCalls == {"s1", "s2"}               \* concurrent fetchFromContentful runs
Mutators == DelCalls \cup SyncCalls

ContentfulIds == {"X1", "X2"}
ProductName == <<"S", "h">>

\* the external items the content API may serve (already in wire form)
ItemX1a == [contentfulId |-> "X1", name |-> ProductName, category |-> "shoes", price |-> 1]
ItemX1b == [contentfulId |-> "X1", name |-> ProductName, category |-> "shoes", price |-> 2]
ItemX2 == [contentfulId |-> "X2", name |-> ProductName, category |-> "shoes", price |-> 2]
ItemPool == {ItemX1a, ItemX2}

RECURSIVE SeqsUpTo(_, _)
SeqsUpTo(S, n) ==
  IF n = 0 THEN { <<>> }
  ELSE LET shorter == SeqsUpTo(S, n - 1)
       IN shorter \cup { Append(s, x) : s \in shorter, x \in S }

ItemLists == SeqsUpTo(ItemPool, MaxItems)

\* ------------------------------------------------------------------------
\* FilterProductDto: a JS object, i.e. its field values plus the order in
\* which the fields were set (own-property order).
\* ------------------------------------------------------------------------
NoFilter ==
  [name |-> <<>>, category |-> "", minPrice |-> Undefined, maxPrice |-> Undefined,
   order |-> <<>>]

FilterCatMin ==
  [name |-> <<>>, category |-> "shoes", minPrice |-> 2, maxPrice |-> Undefined,
   order |-> <<"category", "minPrice">>]

FilterMinCat ==
  [name |-> <<>>, category |-> "shoes", minPrice |-> 2, maxPrice |-> Undefined,
   order |-> <<"minPrice", "category">>]

DefaultDto == [page |-> Undefined, limit |-> Undefined]
FirstOneDto == [page |-> 1, limit |-> 1]

\* the list requests clients send
Requests ==
  { [dto |-> DefaultDto, filter |-> FilterCatMin],
    [dto |-> DefaultDto, filter |-> FilterMinCat] }

\* a name that spells the end of its own member and the start of another
NameClosingQuote ==
  <<"a", "\"", ",", "\"", "c", "a", "t", "e", "g", "o", "r", "y", "\"", ":", "\"", "b">>

FilterNameTricky ==
  [name |-> NameClosingQuote, category |-> "", minPrice |-> Undefined,
   maxPrice |-> Undefined, order |-> <<"name">>]

FilterNameCat ==
  [name |-> <<"a">>, category |-> "b", minPrice |-> Undefined,
   maxPrice |-> Undefined, order |-> <<"name", "category">>]

FilterMin ==
  [name |-> <<>>, category |-> "", minPrice |-> 2, maxPrice |-> Undefined,
   order |-> <<"minPrice">>]

FilterMax ==
  [name |-> <<>>, category |-> "", minPrice |-> Undefined, maxPrice |-> 2,
   order |-> <<"maxPrice">>]

FilterNameLower ==
  [name |-> <<"s", "h">>, category |-> "", minPrice |-> Undefined,
   maxPrice |-> Undefined, order |-> <<"name">>]

FilterNameUnderscore ==
  [name |-> <<"s", "_">>, category |-> "", minPrice |-> Undefined,
   maxPrice |-> Undefined, order |-> <<"name">>]

FilterMinZero ==
  [name |-> <<>>, category |-> "", minPrice |-> 0, maxPrice |-> Undefined,
   order |-> <<"minPrice">>]

\* list requests that differ in page, in limit or in one filter value
KeyRequests ==
  { [dto |-> DefaultDto, filter |-> NoFilter],
    [dto |-> FirstOneDto, filter |-> NoFilter],
    [dto |-> [page |-> 1, limit |-> 15], filter |-> NoFilter],
    [dto |-> [page |-> 11, limit |-> 5], filter |-> NoFilter],
    [dto |-> [page |-> 2, limit |-> Undefined], filter |-> NoFilter],
    [dto |-> DefaultDto, filter |-> FilterNameTricky],
    [dto |-> DefaultDto, filter |-> FilterNameCat],
    [dto |-> DefaultDto, filter |-> FilterMin],
    [dto |-> DefaultDto, filter |-> FilterMax],
    [dto |-> DefaultDto, filter |-> FilterMinZero],
    [dto |-> DefaultDto, filter |-> FilterNameLower],
    [dto |-> DefaultDto, filter |-> FilterNameUnderscore],
    [dto |-> DefaultDto, filter |-> FilterCatMin] }

\* ------------------------------------------------------------------------
\* Pure functions of findAll
\* ------------------------------------------------------------------------
\* const { page = 1, limit = 5 } = paginationDto
PageOf(dto) == IF dto.page = Undefined THEN DefaultPage ELSE dto.page
LimitOf(dto) == IF dto.limit = Undefined THEN DefaultLimit ELSE dto.limit

\* one serialized property of the filter
JsonProp(f, field) ==
  [key |-> field,
   str |-> IF field = "category" THEN f.category ELSE "",
   chars |-> IF field = "name" THEN f.name ELSE <<>>,
   num |-> IF field = "minPrice" THEN f.minPrice
           ELSE IF field = "maxPrice" THEN f.maxPrice ELSE Undefined]

\* JSON.stringify(filterDto): the own properties in insertion order
JsonStringify(f) == [i \in 1..Len(f.order) |-> JsonProp(f, f.order[i])]

\* `products_${page}_${limit}_${JSON.stringify(filterDto)}`
CacheKey(dto, f) ==
  [prefix |-> "products_", page |-> PageOf(dto), limit |-> LimitOf(dto),
   filter |-> JsonStringify(f)]

\* the characters of the strings that occur in keys
StrChars(w) ==
  CASE w = "products_" -> <<"p", "r", "o", "d", "u", "c", "t", "s", "_">>
    [] w = "name" -> <<"n", "a", "m", "e">>
    [] w = "category" -> <<"c", "a", "t", "e", "g", "o", "r", "y">>
    [] w = "minPrice" -> <<"m", "i", "n", "P", "r", "i", "c", "e">>
    [] w = "maxPrice" -> <<"m", "a", "x", "P", "r", "i", "c", "e">>
    [] w = "shoes" -> <<"s", "h", "o", "e", "s">>
    [] w = "b" -> <<"b">>
    [] OTHER -> <<>>

Digit(d) ==
  CASE d = 0 -> "0" [] d = 1 -> "1" [] d = 2 -> "2" [] d = 3 -> "3" [] d = 4 -> "4"
    [] d = 5 -> "5" [] d = 6 -> "6" [] d = 7 -> "7" [] d = 8 -> "8" [] OTHER -> "9"

\* String(n) for a non-negative integer
RECURSIVE NumText(_)
NumText(n) == IF n < 10 THEN <<Digit(n)>> ELSE NumText(n \div 10) \o <<Digit(n % 10)>>

Quote == "\""
Backslash == "\\"

\* JSON.stringify of a string: quoted, with quotes and backslashes escaped
RECURSIVE Escaped(_)
Escaped(cs) ==
  IF cs = <<>> THEN <<>>
  ELSE (IF Head(cs) \in {Quote, Backslash} THEN <<Backslash, Head(cs)>>
        ELSE <<Head(cs)>>) \o Escaped(Tail(cs))

JsonString(cs) == <<Quote>> \o Escaped(cs) \o <<Quote>>

\* one "key":value member
PropText(p) ==
  JsonString(StrChars(p.key)) \o <<":">> \o
  (IF p.key = "name" THEN JsonString(p.chars)
   ELSE IF p.key = "category" THEN JsonString(StrChars(p.str))
   ELSE NumText(p.num))

RECURSIVE MembersText(_)
MembersText(ps) ==
  IF ps = <<>> THEN <<>>
  ELSE IF Len(ps) = 1 THEN PropText(ps[1])
  ELSE PropText(ps[1]) \o <<",">> \o MembersText(Tail(ps))

\* a template that leaves out the "_" between page and limit
KeyTextNoSeparator(k) ==
  StrChars(k.prefix) \o NumText(k.page) \o NumText(k.limit) \o <<"_">> \o
  <<"{">> \o MembersText(k.filter) \o <<"}">>

\* the string the template literal of line 31 evaluates to
KeyText(k) ==
  StrChars(k.prefix) \o NumText(k.page) \o <<"_">> \o NumText(k.limit) \o <<"_">> \o
  <<"{">> \o MembersText(k.filter) \o <<"}">>

\* what a request asks for: page, limit and the value of every filter field
Effective(dto, f) ==
  <<PageOf(dto), LimitOf(dto), f.name, f.category, f.minPrice, f.maxPrice>>

Lower(c) == IF c = "S" THEN "s" ELSE IF c = "H" THEN "h" ELSE c
LowerSeq(s) == [i \in 1..Len(s) |-> Lower(s[i])]

\* s ILIKE pat: "%" stands for any run of characters, "_" for any one
\* character, a backslash takes the next character literally, letters match
\* whatever their case
RECURSIVE LikeMatch(_, _)
LikeMatch(s, pat) ==
  IF pat = <<>> THEN s = <<>>
  ELSE IF Head(pat) = "%"
       THEN LikeMatch(s, Tail(pat)) \/ (s # <<>> /\ LikeMatch(Tail(s), pat))
  ELSE IF s = <<>> THEN FALSE
  ELSE IF Head(pat) = "_" THEN LikeMatch(Tail(s), Tail(pat))
  ELSE IF Head(pat) = Backslash /\ Len(pat) >= 2
       THEN Lower(Head(s)) = Lower(pat[2]) /\ LikeMatch(Tail(s), Tail(Tail(pat)))
  ELSE Lower(Head(s)) = Lower(Head(pat)) /\ LikeMatch(Tail(s), Tail(pat))

\* product.name ILIKE :name with name bound to `%${name}%`
ILike(s, sub) == LikeMatch(s, <<"%">> \o sub \o <<"%">>)

\* deletedAt IS NOT NULL
IsDeleted(p) == p.deletedAt # NoTime

\* the WHERE clause assembled by the query builder
Matches(p, f) ==
  /\ ~IsDeleted(p)
  /\ (f.name # <<>> => ILike(p.name, f.name))
  /\ (f.category # "" => p.category = f.category)
  /\ (f.minPrice # Undefined => p.price >= f.minPrice)
  /\ (f.maxPrice # Undefined => p.price <= f.maxPrice)

Min(a, b) == IF a < b THEN a ELSE b
Ceil(a, b) == (a + b - 1) \div b

RECURSIVE SelectMatching(_, _)
SelectMatching(rows, f) ==
  IF rows = <<>> THEN <<>>
  ELSE IF Matches(Head(rows), f)
       THEN <<Head(rows)>> \o SelectMatching(Tail(rows), f)
       ELSE SelectMatching(Tail(rows), f)

\* skip((page - 1) * limit).take(limit).getManyAndCount() and the result object
QueryResult(rows, dto, f) ==
  LET all == SelectMatching(rows, f)
      page == PageOf(dto)
      limit == LimitOf(dto)
      skip == (page - 1) * limit
  IN [data |-> SubSeq(all, skip + 1, Min(skip + limit, Len(all))),
      total |-> Len(all),
      page |-> page,
      limit |-> limit,
      totalPages |-> Ceil(Len(all), limit)]

NoResult == [data |-> <<>>, total |-> Undefined, page |-> 0, limit |-> 0, totalPages |-> 0]
NoKey == [prefix |-> "", page |-> 0, limit |-> 0, filter |-> <<>>]

\* ------------------------------------------------------------------------
\* AuthGuard
\* ------------------------------------------------------------------------
Scheme == <<"B", "e", "a", "r", "e", "r", " ">>
HeaderChars == {"B", "e", " ", "x"}

StartsWith(s, prefix) ==
  /\ Len(s) >= Len(prefix)
  /\ SubSeq(s, 1, Len(prefix)) = prefix

\* request.headers['authorization']: absent, or a string
Headers ==
  { [present |-> FALSE, value |-> <<>>] } \cup
  { [present |-> TRUE, value |-> SubSeq(Scheme, 1, n) \o t] :
      n \in 0..Len(Scheme), t \in SeqsUpTo(HeaderChars, MaxTail) }

OtherHeaders == {"none", "x-api-key"}

\* a guard that compares with the scheme token but not the space after it
CanActivateNoSeparator(req) ==
  IF ~req.authorization.present \/ req.authorization.value = <<>>
  THEN "unauthorized_missing"
  ELSE IF ~StartsWith(req.authorization.value, SubSeq(Scheme, 1, Len(Scheme) - 1))
       THEN "unauthorized_format"
       ELSE "accept"

\* canActivate: "accept", or the UnauthorizedException it throws
CanActivateOutcome(req) ==
  IF ~req.authorization.present \/ req.authorization.value = <<>>
  THEN "unauthorized_missing"
  ELSE IF ~StartsWith(req.authorization.value, Scheme)
       THEN "unauthorized_format"
       ELSE "accept"



\* ------------------------------------------------------------------------
\* State
\* ------------------------------------------------------------------------
VARIABLES
  products,        \* the product table, in primary-key order
  cache,           \* the cache store: key -> cached page
  storePresent,    \* whether cacheManager.store is defined
  find,            \* the findAll requests
  mut,             \* the softDelete requests and fetchFromContentful runs
  detached,        \* deletions still in flight after their Promise.all rejected
  lastRet,         \* key -> page last returned by a request made since the table
                   \* last changed, while the key was neither deleted nor expired
  cachedBeforeChange, \* keys that were cached when the table was last changed
  syncBase,        \* item list of the last undisturbed complete sync
  calls,           \* number of requests and sync runs started so far
  findRet,         \* what the findAll that returned last did
  mutRet,          \* what the softDelete or sync that returned last did
  age,             \* ms since each cache entry was written, and since the table
                   \* last changed
  gate             \* the request at the access gate

vars == <<products, cache, storePresent, find, mut, detached, lastRet,
          cachedBeforeChange, syncBase, calls, findRet, mutRet, age, gate>>

serviceVars == <<products, cache, storePresent, find, mut, detached, lastRet,
                 cachedBeforeChange, syncBase, calls, findRet, mutRet, age>>

\* a findAll request in flight
IdleFind ==
  [pc |-> "idle", dto |-> DefaultDto, filter |-> NoFilter, result |-> NoResult,
   deletedAtCall |-> {}, hadPrev |-> FALSE, equivCached |-> FALSE,
   overtaken |-> FALSE, stale |-> FALSE, invDone |-> FALSE]

\* what a findAll request did, recorded when it returns
NoFindRet ==
  [call |-> "none", hit |-> FALSE, queried |-> FALSE, raised |-> FALSE,
   quiet |-> FALSE, cachedBefore |-> FALSE, fresh |-> FALSE,
   servedDeleted |-> FALSE, hadPrev |-> FALSE, samePrev |-> FALSE,
   staleAfterInv |-> FALSE, pendingHit |-> FALSE,
   servedAge |-> 0, sinceChange |-> Undefined]

\* a softDelete request or a fetchFromContentful run: its locals and what it did
IdleMut ==
  [pc |-> "idle", kind |-> "none", id |-> NoId, items |-> <<>>, idx |-> 0,
   found |-> NoId, startStore |-> <<>>, onBase |-> FALSE, clean |-> FALSE,
   pending |-> {}, listed |-> {},
   count |-> 0, failedAt |-> 0, looked |-> {}, persisted |-> 0,
   raised |-> FALSE, changed |-> FALSE, invTriggered |-> FALSE,
   removed |-> FALSE, warned |-> FALSE, degraded |-> FALSE,
   errorLogged |-> FALSE, idem |-> "na", again |-> "na"]

NoBase == [valid |-> FALSE, items |-> <<>>]

IdleGate ==
  [pc |-> "idle", authorization |-> [present |-> FALSE, value |-> <<>>],
   other |-> "none", outcome |-> "none"]

\* the table an earlier sync left behind
SeededTable ==
  << [id |-> 1, contentfulId |-> "X1", name |-> ProductName, category |-> "shoes",
      price |-> 2, deletedAt |-> NoTime] >>

Init ==
  /\ products \in {<<>>, SeededTable}
  /\ cache = <<>>
  /\ storePresent \in BOOLEAN
  /\ find = [c \in FindCalls |-> IdleFind]
  /\ mut = [m \in Mutators |-> IdleMut]
  /\ detached = {}
  /\ lastRet = <<>>
  /\ cachedBeforeChange = {}
  /\ syncBase = NoBase
  /\ calls = 0
  /\ findRet = NoFindRet
  /\ mutRet = IdleMut
  /\ age = [entry |-> [k \in DOMAIN cache |-> 0], sinceChange |-> Undefined]
  /\ gate = IdleGate

\* ------------------------------------------------------------------------
\* Cache store and table primitives
\* ------------------------------------------------------------------------
\* a set that leaves only the entry it writes
PutAlone(m, k, v) == [x \in {k} |-> v]

Put(m, k, v) == [x \in (DOMAIN m) \cup {k} |-> IF x = k THEN v ELSE m[x]]
Drop(m, k) ==
  IF (DOMAIN m) \ {k} = {} THEN <<>> ELSE [x \in (DOMAIN m) \ {k} |-> m[x]]
Range(s) == { s[i] : i \in DOMAIN s }
Restrict(m, S) ==
  IF S \cap DOMAIN m = {} THEN <<>> ELSE [x \in S \cap DOMAIN m |-> m[x]]

DeletedIds(rows) == { rows[i].id : i \in { j \in DOMAIN rows : IsDeleted(rows[j]) } }

\* the page lists a row that was soft-deleted when the request came in
ServesDeleted(page, deletedIds) ==
  \E i \in DOMAIN page.data : page.data[i].id \in deletedIds

\* two keys that stand for the same page, limit and filter field values
SameRequest(k1, k2) ==
  /\ k1.page = k2.page
  /\ k1.limit = k2.limit
  /\ Range(k1.filter) = Range(k2.filter)

Busy(r) == r.pc # "idle"

\* every call that has changed the table has returned
Quiet == \A m \in Mutators : Busy(mut[m]) => ~mut[m].changed

\* what is left of a call once it has returned: its locals are gone
Finished(r) ==
  [r EXCEPT !.pc = "done", !.items = <<>>, !.idx = 0, !.found = NoId,
            !.startStore = <<>>, !.onBase = FALSE, !.clean = FALSE,
            !.pending = {}, !.listed = {}]

\* call m returns: r is its final record. findRet and mutRet describe the call
\* that returned in the step just taken, and are blank after any other step.
Return(m, r) ==
  /\ mut' = [mut EXCEPT ![m] = IdleMut]
  /\ mutRet' = Finished(r)

\* call m goes on: r is its new record
Continue(m, r) ==
  /\ mut' = [mut EXCEPT ![m] = r]
  /\ mutRet' = IdleMut

\* CURRENT_TIMESTAMP of a statement issued by the call now starting: every call
\* starts later than the ones started before it
Now == calls + 1

\* bookkeeping shared by every step that writes the table: rows is the new table
NoteChange(m, rows, r) ==
  IF rows = products
  THEN /\ mut' = [mut EXCEPT ![m] = r]
       /\ UNCHANGED <<find, lastRet, cachedBeforeChange, age>>
  ELSE /\ mut' = [x \in Mutators |->
                    IF x = m THEN [r EXCEPT !.changed = TRUE]
                    ELSE [mut[x] EXCEPT !.clean = FALSE]]
       /\ find' = [c \in FindCalls |->
                     IF Busy(find[c])
                     THEN [find[c] EXCEPT !.overtaken = TRUE,
                                          !.stale = @ \/ find[c].pc = "set"]
                     ELSE find[c]]
       /\ lastRet' = <<>>
       /\ cachedBeforeChange' = DOMAIN cache
       /\ age' = [age EXCEPT !.sinceChange = 0]

\* ------------------------------------------------------------------------
\* findAll
\* ------------------------------------------------------------------------
\* lines 28-37: key derivation, cacheManager.get, return on a hit
FindAllGet(c, dto, f) ==
  /\ UNCHANGED age
  /\ calls < MaxCalls
  /\ calls' = calls + 1
  /\ ~Busy(find[c])
  /\ LET key == CacheKey(dto, f)
         prev == IF key \in DOMAIN lastRet THEN lastRet[key] ELSE NoResult
         equiv == \E k \in DOMAIN cache : SameRequest(k, key)
     IN IF key \in DOMAIN cache
        THEN /\ findRet' =
                  [NoFindRet EXCEPT
                     !.call = c,
                     !.hit = TRUE,
                     !.quiet = Quiet,
                     !.cachedBefore = (key \in cachedBeforeChange),
                     !.fresh = (cache[key] = QueryResult(products, dto, f)),
                     !.servedDeleted = ServesDeleted(cache[key], DeletedIds(products)),
                     !.hadPrev = (prev # NoResult),
                     !.samePrev = (prev = cache[key]),
                     !.pendingHit = \E m \in Mutators :
                                       mut[m].pc = "inv_del" /\ key \in mut[m].listed,
                     !.servedAge = age.entry[key],
                     !.sinceChange = age.sinceChange]
             /\ lastRet' = Put(lastRet, key, cache[key])
             /\ UNCHANGED find
        ELSE /\ find' = [find EXCEPT ![c] =
                  [IdleFind EXCEPT !.pc = "query", !.dto = dto, !.filter = f,
                                   !.hadPrev = (prev # NoResult),
                                   !.equivCached = equiv,
                                   !.deletedAtCall = DeletedIds(products)]]
             /\ findRet' = NoFindRet
             /\ UNCHANGED lastRet
  /\ mutRet' = IdleMut
  /\ UNCHANGED <<products, cache, storePresent, mut, detached, cachedBeforeChange,
                 syncBase, gate>>

\* lines 39-70: the query runs against the table as it is now
FindAllQuery(c) ==
  /\ UNCHANGED age
  /\ find[c].pc = "query"
  /\ find' = [find EXCEPT ![c] =
        [@ EXCEPT !.pc = "set", !.equivCached = FALSE,
                  !.result = QueryResult(products, find[c].dto, find[c].filter)]]
  /\ UNCHANGED <<products, cache, storePresent, mut,
                 detached, lastRet, cachedBeforeChange, syncBase, calls, gate>>
  /\ findRet' = NoFindRet
  /\ mutRet' = IdleMut

\* a findAll that answers a failed query with an empty page and caches it
FindAllQueryFailMasked(c) ==
  /\ UNCHANGED age
  /\ find[c].pc = "query"
  /\ find' = [find EXCEPT ![c] = IdleFind]
  /\ cache' = Put(cache, CacheKey(find[c].dto, find[c].filter),
                  QueryResult(<<>>, find[c].dto, find[c].filter))
  /\ findRet' = [NoFindRet EXCEPT !.call = c, !.queried = TRUE,
                                  !.hadPrev = find[c].hadPrev]
  /\ UNCHANGED <<products, storePresent, mut,
                 detached, lastRet, cachedBeforeChange, syncBase, calls, gate>>
  /\ mutRet' = IdleMut

\* line 62: getManyAndCount rejects, the error reaches the caller
FindAllQueryFail(c) ==
  /\ UNCHANGED age
  /\ find[c].pc = "query"
  /\ find' = [find EXCEPT ![c] = IdleFind]
  /\ findRet' = [NoFindRet EXCEPT !.call = c, !.raised = TRUE,
                                  !.hadPrev = find[c].hadPrev]
  /\ UNCHANGED <<products, cache, storePresent, mut,
                 detached, lastRet, cachedBeforeChange, syncBase, calls, gate>>
  /\ mutRet' = IdleMut

\* lines 72-73: cacheManager.set(cacheKey, result, ttl) and return
FindAllSet(c) ==
  /\ find[c].pc = "set"
  /\ LET key == CacheKey(find[c].dto, find[c].filter)
     IN /\ cache' = Put(cache, key, find[c].result)
        /\ lastRet' = IF find[c].overtaken THEN lastRet
                      ELSE Put(lastRet, key, find[c].result)
        \* the time-to-live starts with the write
        /\ age' = [age EXCEPT !.entry = Put(@, key, 0)]
        \* the entry under key is no longer the one an invalidation listed
        /\ mut' = [m \in Mutators |-> [mut[m] EXCEPT !.listed = @ \ {key}]]
  /\ find' = [find EXCEPT ![c] = IdleFind]
  /\ findRet' =
       [NoFindRet EXCEPT
          !.call = c,
          !.queried = TRUE,
          !.servedDeleted = ServesDeleted(find[c].result, find[c].deletedAtCall),
          !.hadPrev = find[c].hadPrev,
          !.staleAfterInv =
             /\ find[c].stale
             /\ find[c].invDone
             /\ find[c].result # QueryResult(products, find[c].dto, find[c].filter)]
  /\ UNCHANGED <<products, storePresent,
                 detached, cachedBeforeChange, syncBase, calls, gate>>
  /\ mutRet' = IdleMut

\* the entry's time-to-live runs out
Expire(k) ==
  /\ k \in DOMAIN cache
  /\ cache' = Drop(cache, k)
  /\ lastRet' = Drop(lastRet, k)
  /\ age' = [age EXCEPT !.entry = Drop(@, k)]
  /\ UNCHANGED <<products, storePresent, find, mut,
                 detached, cachedBeforeChange, syncBase, calls, gate>>
  /\ findRet' = NoFindRet
  /\ mutRet' = IdleMut

\* the length of one step of the clock
TickMs == CacheTtlMs \div TicksPerTtl

\* time passes: every entry grows older, and an entry whose time-to-live (the
\* third argument of cacheManager.set, line 72) is used up is gone
Tick ==
  /\ LET older == [k \in DOMAIN age.entry |-> age.entry[k] + TickMs]
         live == { k \in DOMAIN older : older[k] < CacheTtlMs }
     IN /\ cache' = Restrict(cache, live)
        /\ lastRet' = Restrict(lastRet, live)
        /\ age' = [entry |-> Restrict(older, live),
                   sinceChange |->
                      IF age.sinceChange = Undefined THEN Undefined
                      ELSE Min(age.sinceChange + TickMs, CacheTtlMs + TickMs)]
  /\ UNCHANGED <<products, storePresent, find, mut,
                 detached, cachedBeforeChange, syncBase, calls, gate>>
  /\ findRet' = NoFindRet
  /\ mutRet' = IdleMut

\* ------------------------------------------------------------------------
\* invalidateCache, as run by softDelete and by fetchFromContentful
\* ------------------------------------------------------------------------
\* line 87: store.keys('products_*')
ProductKeys == { k \in DOMAIN cache : k.prefix = "products_" }

\* the invalidation of call r has gone through: the requests that hold a page
\* queried before r changed the table are now behind a completed invalidation
Invalidated(r) ==
  [c \in FindCalls |->
     IF find[c].stale /\ r.changed THEN [find[c] EXCEPT !.invDone = TRUE]
     ELSE find[c]]

\* lines 84-85: cacheManager.store is undefined, the body is skipped
InvalidateNoStore(m) ==
  /\ UNCHANGED age
  /\ mut[m].pc = "inv_keys"
  /\ ~storePresent
  /\ Return(m, [mut[m] EXCEPT !.degraded = TRUE])
  /\ UNCHANGED <<products, cache, storePresent, find,
                 detached, lastRet, cachedBeforeChange, syncBase, calls, gate>>
  /\ findRet' = NoFindRet

\* lines 87-92: the keys are listed; every del is issued at once
InvalidateKeys(m) ==
  /\ UNCHANGED age
  /\ mut[m].pc = "inv_keys"
  /\ storePresent
  /\ IF ProductKeys = {}
     THEN Return(m, mut[m]) /\ find' = Invalidated(mut[m])
     ELSE /\ Continue(m, [mut[m] EXCEPT !.pc = "inv_del", !.pending = ProductKeys,
                                         !.listed = @ \cap ProductKeys])
          /\ UNCHANGED find
  /\ UNCHANGED <<products, cache, storePresent,
                 detached, lastRet, cachedBeforeChange, syncBase, calls, gate>>
  /\ findRet' = NoFindRet

\* lines 87, 94-95: store.keys rejects, the catch logs a warning
InvalidateKeysFail(m) ==
  /\ UNCHANGED age
  /\ mut[m].pc = "inv_keys"
  /\ storePresent
  /\ Return(m, [mut[m] EXCEPT !.warned = TRUE, !.degraded = TRUE])
  /\ UNCHANGED <<products, cache, storePresent, find,
                 detached, lastRet, cachedBeforeChange, syncBase, calls, gate>>
  /\ findRet' = NoFindRet

\* lines 90-91: one del resolves; Promise.all resolves with the last one
InvalidateDel(m, k) ==
  /\ mut[m].pc = "inv_del"
  /\ k \in mut[m].pending
  /\ cache' = Drop(cache, k)
  /\ lastRet' = Drop(lastRet, k)
  /\ age' = [age EXCEPT !.entry = Drop(@, k)]
  /\ LET r == [mut[m] EXCEPT !.pending = @ \ {k}, !.listed = @ \ {k},
                             !.removed = @ \/ k \in DOMAIN cache]
     IN IF r.pending = {}
        THEN Return(m, r) /\ find' = Invalidated(r)
        ELSE Continue(m, r) /\ UNCHANGED find
  /\ UNCHANGED <<products, storePresent,
                 detached, cachedBeforeChange, syncBase, calls, gate>>
  /\ findRet' = NoFindRet

\* lines 90, 94-95: one del rejects, Promise.all rejects at once and the catch
\* logs a warning; the other deletions stay in flight
InvalidateDelFail(m, k) ==
  /\ UNCHANGED age
  /\ mut[m].pc = "inv_del"
  /\ k \in mut[m].pending
  /\ detached' = detached \cup (mut[m].pending \ {k})
  /\ Return(m, [mut[m] EXCEPT !.warned = TRUE, !.degraded = TRUE])
  /\ UNCHANGED <<products, cache, storePresent, find,
                 lastRet, cachedBeforeChange, syncBase, calls, gate>>
  /\ findRet' = NoFindRet

\* line 90: a deletion whose Promise.all has already rejected settles
DetachedDel(k, ok) ==
  /\ k \in detached
  /\ detached' = detached \ {k}
  /\ IF ok
     THEN /\ cache' = Drop(cache, k)
          /\ lastRet' = Drop(lastRet, k)
          /\ age' = [age EXCEPT !.entry = Drop(@, k)]
     ELSE UNCHANGED <<cache, lastRet, age>>
  /\ UNCHANGED <<products, storePresent, find,
                 mut, cachedBeforeChange, syncBase, calls, gate>>
  /\ findRet' = NoFindRet
  /\ mutRet' = IdleMut

\* ------------------------------------------------------------------------
\* softDelete
\* ------------------------------------------------------------------------
\* productRepository.softDelete(id):
\* UPDATE ... SET deletedAt = CURRENT_TIMESTAMP WHERE id = :id
SoftDeleteRows(rows, id, now) ==
  [i \in DOMAIN rows |->
     IF rows[i].id = id THEN [rows[i] EXCEPT !.deletedAt = now] ELSE rows[i]]

\* line 77, then line 79 calls invalidateCache
SoftDeleteStore(d, id) ==
  /\ calls < MaxCalls
  /\ calls' = calls + 1
  /\ ~Busy(mut[d])
  /\ LET rows == SoftDeleteRows(products, id, Now)
         already == \E i \in DOMAIN products :
                       products[i].id = id /\ IsDeleted(products[i])
         call == [IdleMut EXCEPT !.pc = "inv_keys", !.kind = "softDelete",
                                 !.id = id, !.invTriggered = TRUE,
                                 !.listed = ProductKeys,
                                 !.again = IF ~already THEN "na"
                                           ELSE IF rows = products THEN "same"
                                           ELSE "changed"]
     IN /\ products' = rows
        /\ syncBase' = IF rows = products THEN syncBase ELSE NoBase
        /\ NoteChange(d, rows, call)
  /\ UNCHANGED <<cache, storePresent, detached, gate>>
  /\ findRet' = NoFindRet
  /\ mutRet' = IdleMut

\* line 77: the repository call rejects, softDelete rejects with it
SoftDeleteStoreFail(d, id) ==
  /\ UNCHANGED age
  /\ calls < MaxCalls
  /\ calls' = calls + 1
  /\ ~Busy(mut[d])
  /\ Return(d, [IdleMut EXCEPT !.kind = "softDelete", !.id = id, !.raised = TRUE])
  /\ UNCHANGED <<products, cache, storePresent, find,
                 detached, lastRet, cachedBeforeChange, syncBase, gate>>
  /\ findRet' = NoFindRet

\* ------------------------------------------------------------------------
\* fetchFromContentful
\* ------------------------------------------------------------------------
\* findOne({ where: { contentfulId }, withDeleted: true }): the rows it may return
FindOneWithDeleted(rows, cid) ==
  LET ids == { rows[i].id : i \in { j \in DOMAIN rows : rows[j].contentfulId = cid } }
  IN IF ids = {} THEN {NoId} ELSE ids

\* an update that adds to the stored price instead of replacing it
UpdateRowAccumulating(rows, id, entity) ==
  [i \in DOMAIN rows |->
     IF rows[i].id = id
     THEN [rows[i] EXCEPT !.contentfulId = entity.contentfulId,
                          !.name = entity.name,
                          !.category = entity.category,
                          !.price = @ + entity.price]
     ELSE rows[i]]

\* an update that writes the entity as a new row
UpdateRowAsNewRow(rows, id, entity) ==
  Append(rows, [id |-> Len(rows) + 1, contentfulId |-> entity.contentfulId,
                name |-> entity.name, category |-> entity.category,
                price |-> entity.price, deletedAt |-> NoTime])

\* productRepository.update(id, productEntity): the entity's columns are written
UpdateRow(rows, id, entity) ==
  [i \in DOMAIN rows |->
     IF rows[i].id = id
     THEN [rows[i] EXCEPT !.contentfulId = entity.contentfulId,
                          !.name = entity.name,
                          !.category = entity.category,
                          !.price = entity.price]
     ELSE rows[i]]

\* a table without the uniqueness rule
NoUniqueViolation(rows, cid) == FALSE

\* the table refuses a second non-deleted row with the same contentfulId
UniqueViolation(rows, cid) ==
  \E i \in DOMAIN rows : rows[i].contentfulId = cid /\ ~IsDeleted(rows[i])

\* productRepository.save(productEntity): a new row with a generated id
InsertRow(rows, entity) ==
  Append(rows, [id |-> Len(rows) + 1, contentfulId |-> entity.contentfulId,
                name |-> entity.name, category |-> entity.category,
                price |-> entity.price, deletedAt |-> NoTime])

\* a catch that logs and throws the error on
CaughtAndRethrown(r, at) ==
  [r EXCEPT !.failedAt = at, !.errorLogged = TRUE, !.raised = TRUE]

\* lines 128-130: the catch around the whole body logs and returns
Caught(r, at) == [r EXCEPT !.failedAt = at, !.errorLogged = TRUE]

\* lines 125-127: the loop is over, invalidateCache is called
LoopEnd(r, rows) ==
  [r EXCEPT !.pc = "inv_keys", !.invTriggered = TRUE, !.listed = ProductKeys,
            !.items = <<>>, !.idx = 0, !.found = NoId, !.startStore = <<>>,
            !.idem = IF r.onBase /\ r.clean
                     THEN (IF rows = r.startStore THEN "same" ELSE "changed")
                     ELSE "na"]

\* the item list the table is the undisturbed result of, if any
BaseAfter(r, rows, ended) ==
  IF ended /\ r.clean THEN [valid |-> TRUE, items |-> r.items]
  ELSE IF rows = products THEN syncBase ELSE NoBase

\* lines 109-110: the entries are fetched (track: whether the run is followed
\* for the comparison of repeated runs)
SyncFetch(s, items, track) ==
  /\ UNCHANGED age
  /\ calls < MaxCalls
  /\ calls' = calls + 1
  /\ ~Busy(mut[s])
  /\ LET onBase == syncBase.valid /\ syncBase.items = items
         call == [IdleMut EXCEPT !.kind = "sync", !.items = items, !.idx = 1,
                                 !.pc = "lookup", !.count = Len(items),
                                 !.clean = track, !.onBase = onBase,
                                 !.startStore = IF onBase THEN products ELSE <<>>]
     IN IF items = <<>>
        THEN /\ mut' = [mut EXCEPT ![s] = LoopEnd(call, products)]
             /\ syncBase' = BaseAfter(call, products, TRUE)
        ELSE /\ mut' = [mut EXCEPT ![s] = call]
             /\ UNCHANGED syncBase
  /\ UNCHANGED <<products, cache, storePresent, find,
                 detached, lastRet, cachedBeforeChange, gate>>
  /\ findRet' = NoFindRet
  /\ mutRet' = IdleMut

\* line 109: the HTTP request fails
SyncFetchFail(s) ==
  /\ UNCHANGED age
  /\ calls < MaxCalls
  /\ calls' = calls + 1
  /\ ~Busy(mut[s])
  /\ Return(s, Caught([IdleMut EXCEPT !.kind = "sync"], 0))
  /\ UNCHANGED <<products, cache, storePresent, find,
                 detached, lastRet, cachedBeforeChange, syncBase, gate>>
  /\ findRet' = NoFindRet

\* lines 113-115: the item is mapped and looked up, soft-deleted rows included
SyncLookup(s) ==
  /\ UNCHANGED age
  /\ mut[s].pc = "lookup"
  /\ \E id \in FindOneWithDeleted(products, mut[s].items[mut[s].idx].contentfulId) :
       mut' = [mut EXCEPT ![s] =
          [@ EXCEPT !.pc = "persist", !.found = id, !.looked = @ \cup {mut[s].idx}]]
  /\ UNCHANGED <<products, cache, storePresent, find,
                 detached, lastRet, cachedBeforeChange, syncBase, calls, gate>>
  /\ findRet' = NoFindRet
  /\ mutRet' = IdleMut

\* lines 113-115: toProductEntity or findOne throws
SyncLookupFail(s) ==
  /\ UNCHANGED age
  /\ mut[s].pc = "lookup"
  /\ Return(s, Caught(mut[s], mut[s].idx))
  /\ UNCHANGED <<products, cache, storePresent, find,
                 detached, lastRet, cachedBeforeChange, syncBase, calls, gate>>
  /\ findRet' = NoFindRet

\* lines 117-123: update the row found, or save a new one
SyncPersist(s) ==
  /\ mut[s].pc = "persist"
  /\ LET r == mut[s]
         entity == r.items[r.idx]
         rows == IF r.found # NoId THEN UpdateRow(products, r.found, entity)
                 ELSE InsertRow(products, entity)
         last == r.idx = Len(r.items)
         step == [r EXCEPT !.persisted = @ + 1, !.idx = @ + 1, !.pc = "lookup",
                           !.found = NoId]
     IN /\ r.found = NoId =>
             /\ ~UniqueViolation(products, entity.contentfulId)
             /\ Len(products) < MaxProducts
        /\ products' = rows
        /\ syncBase' = BaseAfter(r, rows, last)
        /\ NoteChange(s, rows, IF last THEN LoopEnd(step, rows) ELSE step)
  /\ UNCHANGED <<cache, storePresent, detached, calls, gate>>
  /\ findRet' = NoFindRet
  /\ mutRet' = IdleMut

\* line 122: save is refused by the table's uniqueness rule
SyncPersistConflict(s) ==
  /\ UNCHANGED age
  /\ mut[s].pc = "persist"
  /\ mut[s].found = NoId
  /\ UniqueViolation(products, mut[s].items[mut[s].idx].contentfulId)
  /\ Return(s, Caught(mut[s], mut[s].idx))
  /\ UNCHANGED <<products, cache, storePresent, find,
                 detached, lastRet, cachedBeforeChange, syncBase, calls, gate>>
  /\ findRet' = NoFindRet

\* lines 119, 122: update or save rejects (connectivity)
SyncPersistFail(s) ==
  /\ UNCHANGED age
  /\ mut[s].pc = "persist"
  /\ Return(s, Caught(mut[s], mut[s].idx))
  /\ UNCHANGED <<products, cache, storePresent, find,
                 detached, lastRet, cachedBeforeChange, syncBase, calls, gate>>
  /\ findRet' = NoFindRet

\* ------------------------------------------------------------------------
\* The service: list requests against one soft-delete and one sync at a time
\* ------------------------------------------------------------------------
\* what the content API serves while the list requests are observed
CatalogLists == { <<>>, <<ItemX1a>>, <<ItemX1b>>, <<ItemX1a, ItemX1b>> }

\* the ids clients ask to delete: a row of the table, and no row
TargetIds == {1, 2}

\* no softDelete and no sync is running
Alone == \A m \in Mutators : ~Busy(mut[m])

\* (one mutator runs at a time here: its lookup sees every row written before
\* it, so its save never meets a live row with the same contentfulId)
Next ==
  \/ \E c \in FindCalls, q \in Requests : FindAllGet(c, q.dto, q.filter)
  \/ \E c \in FindCalls : FindAllQuery(c)
  \/ \E c \in FindCalls : FindAllQueryFail(c)
  \/ \E c \in FindCalls : FindAllSet(c)
  \/ \E k \in DOMAIN cache : Expire(k)
  \/ \E d \in DelCalls, id \in TargetIds : Alone /\ SoftDeleteStore(d, id)
  \/ \E d \in DelCalls, id \in TargetIds : Alone /\ SoftDeleteStoreFail(d, id)
  \/ \E m \in Mutators : InvalidateNoStore(m)
  \/ \E m \in Mutators : InvalidateKeys(m)
  \/ \E m \in Mutators : InvalidateKeysFail(m)
  \/ \E m \in Mutators, k \in DOMAIN cache : InvalidateDel(m, k)
  \/ \E m \in Mutators, k \in DOMAIN cache : InvalidateDelFail(m, k)
  \/ \E k \in detached, ok \in BOOLEAN : DetachedDel(k, ok)
  \/ \E items \in CatalogLists : Alone /\ SyncFetch("s1", items, FALSE)
  \/ Alone /\ SyncFetchFail("s1")
  \/ \E s \in SyncCalls : SyncLookup(s)
  \/ \E s \in SyncCalls : SyncLookupFail(s)
  \/ \E s \in SyncCalls : SyncPersist(s)
  \/ \E s \in SyncCalls : SyncPersistFail(s)

Spec == Init /\ [][Next]_vars

\* ------------------------------------------------------------------------
\* The sync job: concurrent runs and a soft-delete
\* ------------------------------------------------------------------------
\* the cache after every list request has been served from the table rows
WarmCache(rows) ==
  [k \in { CacheKey(q.dto, q.filter) : q \in Requests } |->
     LET q == CHOOSE r \in Requests : CacheKey(r.dto, r.filter) = k
     IN QueryResult(rows, q.dto, q.filter)]

SeqInit ==
  /\ products \in {<<>>, SeededTable}
  /\ cache = WarmCache(products)
  /\ storePresent \in BOOLEAN
  /\ find = [c \in FindCalls |-> IdleFind]
  /\ mut = [m \in Mutators |-> IdleMut]
  /\ detached = {}
  /\ lastRet = <<>>
  /\ cachedBeforeChange = {}
  /\ syncBase = NoBase
  /\ calls = 0
  /\ findRet = NoFindRet
  /\ mutRet = IdleMut
  /\ age = [entry |-> [k \in DOMAIN cache |-> 0], sinceChange |-> Undefined]
  /\ gate = IdleGate

MayRun == calls < MaxRuns

\* no list request was served yet: the cache is cold and stays so
SyncInit == Init /\ storePresent

\* responses that list every entry at most once
EntryLists ==
  {l \in ItemLists : \A i, j \in 1..Len(l) : i # j => l[i].contentfulId # l[j].contentfulId}

SyncNext ==
  \/ \E s \in SyncCalls, items \in EntryLists : MayRun /\ SyncFetch(s, items, FALSE)
  \/ \E s \in SyncCalls : MayRun /\ SyncFetchFail(s)
  \/ \E s \in SyncCalls : SyncLookup(s)
  \/ \E s \in SyncCalls : SyncLookupFail(s)
  \/ \E s \in SyncCalls : SyncPersist(s)
  \/ \E s \in SyncCalls : SyncPersistConflict(s)
  \/ \E s \in SyncCalls : SyncPersistFail(s)
  \/ \E d \in DelCalls, id \in 1..MaxProducts : MayRun /\ SoftDeleteStore(d, id)
  \/ \E d \in DelCalls, id \in 1..MaxProducts : MayRun /\ SoftDeleteStoreFail(d, id)
  \/ \E m \in Mutators : InvalidateKeys(m)
  \/ \E m \in Mutators : InvalidateKeysFail(m)

SyncSpec == SyncInit /\ [][SyncNext]_vars

\* ------------------------------------------------------------------------
\* The access gate
\* ------------------------------------------------------------------------
\* a request arrives at the guard
GateRequest(h, o) ==
  /\ gate.pc = "idle"
  /\ gate' = [gate EXCEPT !.pc = "request", !.authorization = h, !.other = o]
  /\ UNCHANGED serviceVars

\* canActivate, lines 9-25 of the guard
CanActivate ==
  /\ gate.pc = "request"
  /\ gate' = [gate EXCEPT !.pc = "done", !.outcome = CanActivateOutcome(gate)]
  /\ UNCHANGED serviceVars

GateNext ==
  \/ \E h \in Headers, o \in OtherHeaders : GateRequest(h, o)
  \/ CanActivate

GateSpec == Init /\ [][GateNext]_vars

\* ------------------------------------------------------------------------
\* Sync runs and soft-deletes one after the other
\* ------------------------------------------------------------------------
SeqNext ==
  \/ \E items \in ItemLists : Alone /\ MayRun /\ SyncFetch("s1", items, TRUE)
  \/ Alone /\ MayRun /\ SyncFetchFail("s1")
  \/ SyncLookup("s1")
  \/ SyncLookupFail("s1")
  \/ SyncPersist("s1")
  \/ SyncPersistFail("s1")
  \/ \E d \in DelCalls, id \in 1..MaxProducts :
        Alone /\ MayRun /\ SoftDeleteStore(d, id)
  \/ \E d \in DelCalls, id \in 1..MaxProducts :
        Alone /\ MayRun /\ SoftDeleteStoreFail(d, id)
  \/ \E m \in Mutators : InvalidateNoStore(m)
  \/ \E m \in Mutators : InvalidateKeys(m)
  \/ \E m \in Mutators : InvalidateKeysFail(m)
  \/ \E m \in Mutators, k \in DOMAIN cache : InvalidateDel(m, k)
  \/ \E m \in Mutators, k \in DOMAIN cache : InvalidateDelFail(m, k)
  \/ \E k \in detached, ok \in BOOLEAN : DetachedDel(k, ok)

SeqSpec == SeqInit /\ [][SeqNext]_vars

\* ------------------------------------------------------------------------
\* List requests over many keys, the table left alone
\* ------------------------------------------------------------------------
KeyInit == Init /\ storePresent /\ products = SeededTable

KeyNext ==
  \/ \E c \in FindCalls, q \in KeyRequests : MayRun /\ FindAllGet(c, q.dto, q.filter)
  \/ \E c \in FindCalls : FindAllQuery(c)
  \/ \E c \in FindCalls : FindAllQueryFail(c)
  \/ \E c \in FindCalls : FindAllSet(c)
  \/ \E k \in DOMAIN cache : Expire(k)

KeySpec == KeyInit /\ [][KeyNext]_vars

\* ------------------------------------------------------------------------
\* List requests and a soft-delete while time passes
\* ------------------------------------------------------------------------
TtlNext ==
  \/ \E c \in FindCalls, q \in Requests : MayRun /\ FindAllGet(c, q.dto, q.filter)
  \/ \E c \in FindCalls : FindAllQuery(c)
  \/ \E c \in FindCalls : FindAllQueryFail(c)
  \/ \E c \in FindCalls : FindAllSet(c)
  \/ Tick
  \/ \E d \in DelCalls, id \in TargetIds : Alone /\ MayRun /\ SoftDeleteStore(d, id)
  \/ \E d \in DelCalls, id \in TargetIds :
        Alone /\ MayRun /\ SoftDeleteStoreFail(d, id)
  \/ \E m \in Mutators : InvalidateNoStore(m)
  \/ \E m \in Mutators : InvalidateKeys(m)
  \/ \E m \in Mutators : InvalidateKeysFail(m)
  \/ \E m \in Mutators, k \in DOMAIN cache : InvalidateDel(m, k)
  \/ \E m \in Mutators, k \in DOMAIN cache : InvalidateDelFail(m, k)
  \/ \E k \in detached, ok \in BOOLEAN : DetachedDel(k, ok)

TtlSpec == Init /\ [][TtlNext]_vars

\* ------------------------------------------------------------------------
\* Properties
\* ------------------------------------------------------------------------

\* C1: once every softDelete or fetchFromContentful call that changed the table
\* has returned, a findAll served from the cache for a key that was cached when
\* the table changed returns the page the table now gives.
C1_NoStalePageAfterMutation ==
  (findRet.hit /\ findRet.quiet /\ findRet.cachedBefore) => findRet.fresh

\* C2: the page findAll returns, from the cache or from the table, lists no row
\* that was soft-deleted when findAll was called.
C2_NeverListsDeleted == ~findRet.servedDeleted

\* C3: a findAll whose key was already answered, with no table change, no
\* deletion of the key and no expiry since, is served from the cache, runs no
\* query and returns the same page.
C3_RepeatedCallSamePage ==
  findRet.hadPrev => (findRet.hit /\ ~findRet.queried /\ findRet.samePrev)

C6_LoopContinuesAfterFailure ==
  (mutRet.kind = "sync" /\ mutRet.failedAt >= 1)
     => \A j \in (mutRet.failedAt + 1)..mutRet.count : j \in mutRet.looked

\* C7: a sync run that has persisted at least one item has called
\* invalidateCache by the time it returns.
C7_InvalidatesOnCompletion ==
  (mutRet.kind = "sync" /\ mutRet.persisted >= 1) => mutRet.invTriggered

\* C8: when the store is absent, store.keys throws or a del fails, the call
\* removes no key, logs a warning and does not raise, and the softDelete's row
\* stays deleted.
C8_DegradedInvalidation ==
  mutRet.degraded =>
     /\ ~mutRet.removed
     /\ mutRet.warned
     /\ ~mutRet.raised
     /\ (mutRet.kind = "softDelete" =>
           \A i \in DOMAIN products : products[i].id = mutRet.id => IsDeleted(products[i]))

\* C9: the gate rejects a request without authorization header, rejects one
\* whose header does not begin with "Bearer ", accepts every other one, and
\* leaves the service untouched.
C9_GateVerdict ==
  [][ (gate.pc = "request" /\ gate'.pc = "done") =>
        /\ LET h == gate.authorization
               bearer == /\ h.present
                         /\ Len(h.value) >= 7
                         /\ <<h.value[1], h.value[2], h.value[3], h.value[4],
                              h.value[5], h.value[6], h.value[7]>> = Scheme
           IN IF bearer THEN gate'.outcome = "accept"
              ELSE gate'.outcome \in {"unauthorized_missing", "unauthorized_format"}
        /\ UNCHANGED serviceVars ]_vars

C9_Witness ==
  /\ gate.pc = "done"
  /\ gate.outcome = "accept"
  /\ Len(gate.authorization.value) > Len(Scheme)

\* C10: a findAll whose page, limit and filter field values equal those of a
\* cached request finds that entry, in whatever order the filter fields were set.
C10_SameKeyAnyFieldOrder ==
  \A c \in FindCalls : find[c].pc = "query" => ~find[c].equivCached

\* C11: two requests that differ in page, in limit or in the value of a filter
\* field have different key strings, and a request in flight has the key string
\* of a cached entry only if the entry is for its own page, limit and filter.
C11_DistinctKeys ==
  /\ \A c, d \in FindCalls :
        (Busy(find[c]) /\ Busy(find[d])
           /\ Effective(find[c].dto, find[c].filter) # Effective(find[d].dto, find[d].filter))
        => KeyText(CacheKey(find[c].dto, find[c].filter))
             # KeyText(CacheKey(find[d].dto, find[d].filter))
  /\ \A c \in FindCalls, k \in DOMAIN cache :
        (Busy(find[c]) /\ KeyText(k) = KeyText(CacheKey(find[c].dto, find[c].filter)))
        => SameRequest(k, CacheKey(find[c].dto, find[c].filter))

\* page 1 with limit 15 is in flight next to page 11 with limit 5
C11_Witness ==
  \E c, d \in FindCalls :
     /\ Busy(find[c]) /\ Busy(find[d])
     /\ PageOf(find[c].dto) = 1 /\ LimitOf(find[c].dto) = 15
     /\ PageOf(find[d].dto) = 11 /\ LimitOf(find[d].dto) = 5

\* C12: softDelete of a row that is already soft-deleted leaves the table as it
\* was: no column of any row changes.
C12_SoftDeleteAgainSameTable ==
  /\ \A d \in DelCalls : mut[d].again # "changed"
  /\ mutRet.again # "changed"

\* C13: a findAll that queried the table before a softDelete or sync changed it
\* and writes its page after that call's invalidation went through does not
\* leave a page the table no longer gives.
C13_NoStaleWriteAfterInvalidation == ~findRet.staleAfterInv

\* C14: while an invalidation is deleting the keys it listed, no findAll is
\* served an entry that was there when invalidateCache was called, is among
\* the listed keys and has not been written again since.
C14_NoReadOfListedEntry == ~findRet.pendingHit

\* C15: the step of a sync run that persists an item whose lookup found a row,
\* soft-deleted or not, writes the item's fields to that row and nothing else:
\* the table keeps its length, every row keeps its id, and the other rows are
\* untouched, so no second row with the item's contentfulId appears.
C15_UpdateInPlace ==
  [][ \A s \in SyncCalls :
        (/\ mut[s].pc = "persist"
         /\ mut[s].found # NoId
         /\ mut'[s].persisted = mut[s].persisted + 1)
        => LET e == mut[s].items[mut[s].idx]
           IN /\ Len(products') = Len(products)
              /\ \A i \in DOMAIN products :
                    /\ products'[i].id = products[i].id
                    /\ products'[i].deletedAt = products[i].deletedAt
                    /\ IF products[i].id = mut[s].found
                       THEN /\ products'[i].contentfulId = e.contentfulId
                            /\ products'[i].name = e.name
                            /\ products'[i].category = e.category
                            /\ products'[i].price = e.price
                       ELSE products'[i] = products[i] ]_vars

\* a soft-deleted row has been overwritten by a sync run
C15_Witness ==
  /\ Len(products) = 1
  /\ IsDeleted(products[1])
  /\ products[1].price = ItemX1a.price
  /\ \E s \in SyncCalls : mut[s].persisted = 1

\* C16: a fetchFromContentful call never rejects: when the fetch, a lookup or
\* a write fails it returns after logging the error, and when the invalidation
\* fails it returns after logging a warning.
C16_SyncNeverRaises ==
  mutRet.kind = "sync" =>
     /\ ~mutRet.raised
     /\ (~mutRet.invTriggered => mutRet.errorLogged)
     /\ ((mutRet.degraded /\ storePresent) => mutRet.warned)

\* a run that wrote one item and failed on the next one has returned
C16_Witness ==
  /\ mutRet.kind = "sync"
  /\ mutRet.persisted = 1
  /\ mutRet.failedAt = 2
  /\ mutRet.errorLogged

\* C17: the page a findAll computes on a miss has total equal to the number of
\* rows that are not soft-deleted and satisfy every supplied predicate (name
\* contained in the row's name whatever the case, category equal, price within
\* minPrice and maxPrice inclusive), data equal to the window of those rows at
\* offset (page - 1) * limit, and totalPages equal to ceil(total / limit).
C17_PageOfMatches ==
  \A c \in FindCalls :
     find[c].pc = "set" =>
        LET f == find[c].filter
            page == PageOf(find[c].dto)
            limit == LimitOf(find[c].dto)
            Contains(s, sub) ==
               \E i \in 0..(Len(s) - Len(sub)) :
                  LowerSeq(SubSeq(s, i + 1, i + Len(sub))) = LowerSeq(sub)
            Wanted(p) ==
               /\ p.deletedAt = NoTime
               /\ (f.name # <<>> => Contains(p.name, f.name))
               /\ (f.category # "" => p.category = f.category)
               /\ (f.minPrice # Undefined => p.price >= f.minPrice)
               /\ (f.maxPrice # Undefined => p.price <= f.maxPrice)
            all == SelectSeq(products, Wanted)
            from == (page - 1) * limit
        IN /\ find[c].result.total = Len(all)
           /\ find[c].result.data =
                 SubSeq(all, from + 1, IF from + limit < Len(all) THEN from + limit
                                       ELSE Len(all))
           /\ find[c].result.totalPages * limit >= Len(all)
           /\ (find[c].result.totalPages - 1) * limit < Len(all)
              \/ (Len(all) = 0 /\ find[c].result.totalPages = 0)

\* C18: findAll never returns a cached page written an hour or more ago, and a
\* cached page the table no longer gives is returned at most one hour after
\* the table changed.
C18_ServedWithinTheHour ==
  LET HourMs == 60 * 60 * 1000
  IN findRet.hit =>
        /\ findRet.servedAge < HourMs
        /\ (~findRet.fresh /\ findRet.sinceChange # Undefined)
              => findRet.sinceChange <= HourMs

\* C19: when the query of a findAll fails, that findAll rejects and the cache
\* is left as it was; when the repository call of a softDelete fails, the
\* softDelete rejects, and neither the table nor the cache changes and no
\* invalidation is started.
C19_StoreFailureReachesCaller ==
  [][ /\ \A c \in FindCalls :
           (find[c].pc = "query" /\ find'[c].pc = "idle")
           => /\ findRet'.call = c
              /\ findRet'.raised
              /\ cache' = cache
      /\ mutRet'.raised
           => /\ mutRet'.kind = "softDelete"
              /\ ~mutRet'.invTriggered
              /\ cache' = cache
              /\ products' = products
              /\ \A m \in Mutators : mut'[m].pc = mut[m].pc ]_vars

\* a findAll has rejected while another key is cached
C19_Witness ==
  /\ findRet.raised
  /\ DOMAIN cache # {}

\* C20: no step of findAll changes the table; its cache lookup and its query
\* leave the cache as it is, whether the lookup hits or misses, and its write
\* changes the entry under its own key and no other.
C20_FindAllFrame ==
  [][ \A c \in FindCalls :
        LET key == CacheKey(find[c].dto, find[c].filter)
            lookup == find[c].pc = "idle"
                         /\ (find'[c].pc = "query" \/ findRet'.call = c)
            query == find[c].pc = "query" /\ find'[c].pc \in {"set", "idle"}
            write == find[c].pc = "set" /\ find'[c].pc = "idle"
        IN /\ (lookup \/ query \/ write)
                => /\ products' = products
                   /\ storePresent' = storePresent
           /\ (lookup \/ query) => cache' = cache
           /\ write => /\ DOMAIN cache' = DOMAIN cache \cup {key}
                       /\ \A k \in DOMAIN cache : k # key => cache'[k] = cache[k] ]_vars

\* a findAll has written its page next to the entry of another key
C20_Witness ==
  /\ findRet.queried
  /\ Cardinality(DOMAIN cache) = 2

====
